---- MODULE Spec2Model ----
(***************************************************************************)
(* A model of radmin-router: Segment, Path, Route, Node (the trie) and     *)
(* Router (match_route and route).                                         *)
(*                                                                         *)
(* A string is a sequence of characters; a character is a one-letter TLA+  *)
(* string.  UTF-8 byte widths are kept, because Path::from_str mixes byte  *)
(* lengths with character indices.                                         *)
(***************************************************************************)
EXTENDS Integers, Sequences, FiniteSets, TLC

VARIABLES
    segs,               \* SpecSeg: the three segments under comparison
    cmp,                \* SpecSeg: the results of eq / hash on them
    pin,                \* SpecPath: the input (a string or a Path)
    pstage,             \* SpecPath: position of the parse / format run
    pout,               \* SpecPath: the value produced at that position
    rt,                 \* SpecRoute: the Route under construction
    rlog,               \* SpecRoute: the method registrations made on it, in order
    robs,               \* SpecRoute: the value the last query on it returned
    root,               \* Router.root: the trie, key path |-> Node
    route_not_found,    \* Router.route_not_found
    method_not_allowed, \* Router.method_not_allowed
    ex,                 \* Router.ex: the shared application context
    phase,              \* "Building" (owned, mutable) or "Serving" (behind an Arc)
    regs,               \* the routes appended so far, in order
    req,                \* the request route() is called with, if any
    obs,                \* what that call of route() did and returned
    tasks               \* SpecServe: each serving task's position inside route()

segVars == <<segs, cmp>>
pathVars == <<pin, pstage, pout>>
routeVars == <<rt, rlog, robs>>
routerVars ==
    <<root, route_not_found, method_not_allowed, ex, phase, regs, req, obs, tasks>>
vars == <<segs, cmp, pin, pstage, pout, rt, rlog, robs,
          root, route_not_found, method_not_allowed, ex, phase, regs, req, obs, tasks>>

\* Option<T> and the outcome of an operation that may panic.
NoneV == [some |-> FALSE]
Some(v) == [some |-> TRUE, val |-> v]
Panic == [panic |-> TRUE]
Ok(v) == [panic |-> FALSE, val |-> v]

\* ------------------------------------------------------------------ bounds
MaxTextLen == 1
MaxStrLen == 4
MaxPathSegs == 2
MaxMethodCalls == 3
MaxRegs == 2
MaxSegs == 2
MaxReqLen == 4
MaxDispatchSegs == 1
NTasks == 2

\* ----------------------------------------------------------------- strings
RECURSIVE SeqsUpTo(_, _)
SeqsUpTo(S, n) ==
    IF n = 0 THEN {<<>>}
    ELSE LET prev == SeqsUpTo(S, n - 1)
         IN  prev \cup {Append(s, c) : s \in {t \in prev : Len(t) = n - 1}, c \in S}

\* UTF-8 width of a character: what String::len counts.
Width(c) == IF c = "é" THEN 2 ELSE 1

RECURSIVE ByteLen(_)
ByteLen(s) == IF s = <<>> THEN 0 ELSE Width(Head(s)) + ByteLen(Tail(s))

\* Byte offset at which the character s[i] starts (ByteLen(s) for i = Len(s)+1).
ByteOffset(s, i) == ByteLen(SubSeq(s, 1, i - 1))

IsCharBoundary(s, b) == \E i \in 1..(Len(s) + 1) : ByteOffset(s, i) = b

\* &s[from..to] with byte indices: panics when from > to, when to is past the
\* end, or when an index is inside a character.
ByteSlice(s, from, to) ==
    IF from > to \/ to > ByteLen(s)
       \/ ~IsCharBoundary(s, from) \/ ~IsCharBoundary(s, to)
    THEN Panic
    ELSE LET i == CHOOSE k \in 1..(Len(s) + 1) : ByteOffset(s, k) = from
             j == CHOOSE k \in 1..(Len(s) + 1) : ByteOffset(s, k) = to
         IN  Ok(SubSeq(s, i, j - 1))

\* str::split('/'): one piece more than there are separators, empty pieces kept.
RECURSIVE SplitFrom(_, _, _)
SplitFrom(s, i, cur) ==
    IF i > Len(s) THEN <<cur>>
    ELSE IF s[i] = "/" THEN <<cur>> \o SplitFrom(s, i + 1, <<>>)
    ELSE SplitFrom(s, i + 1, Append(cur, s[i]))

Split(s) == SplitFrom(s, 1, <<>>)

\* str::trim_start_matches('/')
RECURSIVE TrimStart(_)
TrimStart(s) ==
    IF s # <<>> /\ Head(s) = "/" THEN TrimStart(Tail(s)) ELSE s

RECURSIVE Join(_, _)
Join(pieces, sep) ==
    IF pieces = <<>> THEN <<>>
    ELSE IF Len(pieces) = 1 THEN pieces[1]
    ELSE pieces[1] \o sep \o Join(Tail(pieces), sep)

\* ----------------------------------------------------------------- Segment
Literal(text) == [kind |-> "Literal", text |-> text]
Dynamic(name) == [kind |-> "Dynamic", text |-> name]

Segment_eq_NameSensitive(lhs, rhs) == lhs = rhs

\* impl PartialEq for Segment
Segment_eq(lhs, rhs) ==
    CASE lhs.kind = "Literal" /\ rhs.kind = "Literal" -> lhs.text = rhs.text
      [] lhs.kind = "Dynamic" /\ rhs.kind = "Dynamic" -> TRUE
      [] OTHER -> FALSE

Segment_hash_WithName(seg) == <<seg.kind, seg.text>>

\* impl Hash for Segment: what is fed to the hasher.  A literal feeds its text
\* (str::hash writes the bytes and a terminator), a dynamic segment nothing.
Segment_hash(seg) ==
    IF seg.kind = "Literal" THEN <<seg.text, "0xff">> ELSE <<>>

\* -------------------------------------------------------------------- Path
\* One component of Path::from_str's loop body (path.rs 52-61).
ParseSegment(segment) ==
    LET len == ByteLen(segment)
        first_is_open == segment[1] = "["
    IN  IF ~first_is_open THEN Ok(Literal(segment))
        ELSE IF len > Len(segment) THEN Panic        \* chars[len - 1] out of bounds
        ELSE IF segment[len] # "]" THEN Ok(Literal(segment))
        ELSE LET name == ByteSlice(segment, 1, len - 2)
             IN  IF name.panic THEN Panic ELSE Ok(Dynamic(name.val))

RECURSIVE ParsePieces(_)
ParsePieces(pieces) ==
    IF pieces = <<>> THEN Ok(<<>>)
    ELSE IF Head(pieces) = <<>> THEN ParsePieces(Tail(pieces))
    ELSE LET seg == ParseSegment(Head(pieces))
         IN  IF seg.panic THEN Panic
             ELSE LET rest == ParsePieces(Tail(pieces))
                  IN  IF rest.panic THEN Panic ELSE Ok(<<seg.val>> \o rest.val)

\* impl FromStr for Path
Path_from_str(path) == ParsePieces(Split(path))

FormatSegment(seg) ==
    IF seg.kind = "Dynamic" THEN <<"[">> \o seg.text \o <<"]">> ELSE seg.text

\* impl Display for Path
Path_fmt(p) == <<"/">> \o Join([i \in 1..Len(p) |-> FormatSegment(p[i])], <<"/">>)

\* derive(PartialEq) on Path(Vec<Segment>): element-wise Segment equality.
Path_eq(p, q) ==
    /\ Len(p) = Len(q)
    /\ \A i \in 1..Len(p) : Segment_eq(p[i], q[i])

\* ------------------------------------------------------------------- Route
\* Route::new
Route_new(path) == [path |-> path, handlers |-> <<>>]

Route_register_KeepFirst(route, method, handler) ==
    IF method \in DOMAIN route.handlers THEN route
    ELSE [route EXCEPT !.handlers = (method :> handler) @@ route.handlers]

\* Route::register (behind get, post, put, delete, ...): HashMap::insert
Route_register(route, method, handler) ==
    [route EXCEPT !.handlers = (method :> handler) @@ route.handlers]

\* Route::handler
Route_handler(route, method) ==
    IF method \in DOMAIN route.handlers THEN Some(route.handlers[method]) ELSE NoneV

\* The orders HashMap::keys may yield the methods in.
KeyOrders(S) ==
    {o \in [1..Cardinality(S) -> S] : \A i, j \in DOMAIN o : i # j => o[i] # o[j]}

\* Route::allowed_methods: every Vec it may return.
Route_allowed_methods(route) == KeyOrders(DOMAIN route.handlers)

\* ------------------------------------------------------------ Node (the trie)
\* Node::default
Node_default == [route |-> NoneV]

\* Router::new's root: one node, no route, no children.
EmptyTrie == (<<>> :> Node_default)

\* node.children.keys()
ChildKeys(trie, node) ==
    {n[Len(n)] : n \in {m \in DOMAIN trie :
                         Len(m) = Len(node) + 1 /\ SubSeq(m, 1, Len(node)) = node}}

\* node.children.get(&seg): the child whose key hashes like seg and equals it.
Children_get(trie, node, seg) ==
    LET found == {k \in ChildKeys(trie, node) :
                     Segment_hash(k) = Segment_hash(seg) /\ Segment_eq(k, seg)}
    IN  IF found = {} THEN NoneV
        ELSE Some(Append(node, CHOOSE k \in found : TRUE))

RECURSIVE Descend_Insert(_, _, _)
Descend_Insert(trie, current, path) ==
    IF path = <<>> THEN [trie |-> trie, node |-> current]
    ELSE LET child == Children_get(trie, current, Head(path))
             key == IF child.some THEN child.val ELSE Append(current, Head(path))
             kept == {n \in DOMAIN trie :
                         ~(Len(n) >= Len(key) /\ SubSeq(n, 1, Len(key)) = key)}
         IN  Descend_Insert((key :> Node_default) @@ [n \in kept |-> trie[n]],
                            key, Tail(path))

\* The loop of Node::append: entry(segment).or_insert(Node::default()), descend.
RECURSIVE Descend(_, _, _)
Descend(trie, current, path) ==
    IF path = <<>> THEN [trie |-> trie, node |-> current]
    ELSE LET child == Children_get(trie, current, Head(path))
         IN  IF child.some THEN Descend(trie, child.val, Tail(path))
             ELSE LET created == Append(current, Head(path))
                  IN  Descend((created :> Node_default) @@ trie, created, Tail(path))

Node_append_KeepFirst(trie, route) ==
    LET w == Descend(trie, <<>>, route.path)
    IN  IF w.trie[w.node].route.some THEN w.trie
        ELSE [w.trie EXCEPT ![w.node].route = Some(route)]

\* Node::append
Node_append(trie, route) ==
    LET w == Descend(trie, <<>>, route.path)
    IN  [w.trie EXCEPT ![w.node].route = Some(route)]

RECURSIVE AppendAll(_, _)
AppendAll(trie, routes) ==
    IF routes = <<>> THEN trie
    ELSE AppendAll(Node_append(trie, Head(routes)), Tail(routes))

\* ------------------------------------------------------------------ Router
Expand_DynamicFirst(trie, candidate, segment) ==
    LET literal == Children_get(trie, candidate, Literal(segment))
        dyn == Children_get(trie, candidate, Dynamic(<<>>))
    IN  (IF dyn.some THEN <<dyn.val>> ELSE <<>>)
        \o (IF literal.some THEN <<literal.val>> ELSE <<>>)

\* One candidate's contribution to new_candidates: literal child, then dynamic.
Expand(trie, candidate, segment) ==
    LET literal == Children_get(trie, candidate, Literal(segment))
        dyn == Children_get(trie, candidate, Dynamic(<<>>))
    IN  (IF literal.some THEN <<literal.val>> ELSE <<>>)
        \o (IF dyn.some THEN <<dyn.val>> ELSE <<>>)

RECURSIVE NewCandidates(_, _, _)
NewCandidates(trie, candidates, segment) ==
    IF candidates = <<>> THEN <<>>
    ELSE Expand(trie, Head(candidates), segment)
         \o NewCandidates(trie, Tail(candidates), segment)

RECURSIVE Survivors_SkipUnmatched(_, _, _)
Survivors_SkipUnmatched(trie, candidates, segments) ==
    IF segments = <<>> THEN Some(candidates)
    ELSE IF Head(segments) = <<>>
    THEN Survivors_SkipUnmatched(trie, candidates, Tail(segments))
    ELSE LET new_candidates == NewCandidates(trie, candidates, Head(segments))
         IN  IF new_candidates = <<>>
             THEN Survivors_SkipUnmatched(trie, candidates, Tail(segments))
             ELSE Survivors_SkipUnmatched(trie, new_candidates, Tail(segments))

\* The loop over segments (router.rs 179-199): the surviving candidates, or
\* none when a level leaves no candidate.
RECURSIVE Survivors(_, _, _)
Survivors(trie, candidates, segments) ==
    IF segments = <<>> THEN Some(candidates)
    ELSE IF Head(segments) = <<>> THEN Survivors(trie, candidates, Tail(segments))
    ELSE LET new_candidates == NewCandidates(trie, candidates, Head(segments))
         IN  IF new_candidates = <<>> THEN NoneV
             ELSE Survivors(trie, new_candidates, Tail(segments))

RECURSIVE ExtractParams_OffByOne(_, _, _)
ExtractParams_OffByOne(path, segments, idx) ==
    IF idx > Len(path) THEN Ok(<<>>)
    ELSE IF path[idx].kind # "Dynamic" THEN ExtractParams_OffByOne(path, segments, idx + 1)
    ELSE IF idx + 1 > Len(segments) THEN Panic
    ELSE LET rest == ExtractParams_OffByOne(path, segments, idx + 1)
         IN  IF rest.panic THEN Panic ELSE Ok(<<segments[idx + 1]>> \o rest.val)

\* The fold of router.rs 206-217: segments[idx] for each dynamic index idx of
\* the route's path; indexing past the end of segments panics.
RECURSIVE ExtractParams(_, _, _)
ExtractParams(path, segments, idx) ==
    IF idx > Len(path) THEN Ok(<<>>)
    ELSE IF path[idx].kind # "Dynamic" THEN ExtractParams(path, segments, idx + 1)
    ELSE IF idx > Len(segments) THEN Panic
    ELSE LET rest == ExtractParams(path, segments, idx + 1)
         IN  IF rest.panic THEN Panic ELSE Ok(<<segments[idx]>> \o rest.val)

Chosen_Last(candidates) == candidates[Len(candidates)]

\* candidates.first()
Chosen(candidates) == candidates[1]

\* Router::match_route.  result: Option<(Route, Vec<String>)>; diag: whether
\* "Matched multiple routes!" was printed; candidates: the survivors.
Router_match_route(trie, path) ==
    LET segments == Split(TrimStart(path))
        surv == Survivors(trie, <<(<<>>)>>, segments)
    IN  IF ~surv.some
        THEN [panic |-> FALSE, result |-> NoneV, diag |-> FALSE, candidates |-> <<>>]
        ELSE LET candidates == surv.val
                 diag == Len(candidates) > 1
                 node == trie[Chosen(candidates)]
             IN  IF ~node.route.some
                 THEN [panic |-> FALSE, result |-> NoneV, diag |-> diag,
                       candidates |-> candidates]
                 ELSE LET route == node.route.val
                          params == ExtractParams(route.path, segments, 1)
                      IN  IF params.panic
                          THEN [panic |-> TRUE, result |-> NoneV, diag |-> diag,
                                candidates |-> candidates]
                          ELSE [panic |-> FALSE,
                                result |-> Some([route |-> route, params |-> params.val]),
                                diag |-> diag, candidates |-> candidates]

\* The default route_not_found closure of Router::new.
DefaultRouteNotFound ==
    [ok |-> TRUE, status |-> 404, allow |-> NoneV, body |-> "Not Found"]

\* The default method_not_allowed closure of Router::new, for one order of
\* route.allowed_methods().
DefaultMethodNotAllowed(allowed) ==
    [ok |-> TRUE, status |-> 405,
     allow |-> Some(Join([i \in 1..Len(allowed) |-> <<allowed[i]>>], <<", ">>)),
     body |-> "Method Not Allowed"]

\* One invocation of a fallback or of a handler, with what it was passed and
\* what it returned.
Call(target, fn, route, params, exv, result) ==
    [target |-> target, fn |-> fn, route |-> route, params |-> params,
     ex |-> exv, result |-> result]

Outcome(m, call) ==
    [panic |-> FALSE, diag |-> m.diag, calls |-> <<call>>, returned |-> call.result]

\* What a handler supplied by the application may return: Ok(response) or
\* Err(hyper::Error).
HandlerResults ==
    {[ok |-> TRUE, status |-> 200, allow |-> NoneV, body |-> "OK"],
     [ok |-> FALSE, status |-> 0, allow |-> NoneV, body |-> "hyper::Error"]}

Router_route_ErrTo500(trie, nf, mna, exv, request) ==
    LET m == Router_match_route(trie, request.path)
        fix(r) == IF r.ok THEN r ELSE [r EXCEPT !.ok = TRUE, !.status = 500]
    IN  IF m.panic THEN {[panic |-> TRUE, diag |-> m.diag, calls |-> <<>>, returned |-> NoneV]}
        ELSE IF ~m.result.some
        THEN {[Outcome(m, Call("route_not_found", nf, NoneV, NoneV, exv, r))
                 EXCEPT !.returned = fix(r)] :
                 r \in IF nf = "default" THEN {DefaultRouteNotFound} ELSE HandlerResults}
        ELSE LET route == m.result.val.route
                 params == m.result.val.params
                 handler == Route_handler(route, request.method)
             IN  IF ~handler.some
                 THEN {[Outcome(m, Call("method_not_allowed", mna, Some(route), Some(params), exv, r))
                          EXCEPT !.returned = fix(r)] :
                          r \in IF mna = "default"
                                THEN {DefaultMethodNotAllowed(o) : o \in Route_allowed_methods(route)}
                                ELSE HandlerResults}
                 ELSE {[Outcome(m, Call("handler", handler.val, Some(route), Some(params), exv, r))
                          EXCEPT !.returned = fix(r)] :
                          r \in HandlerResults}

\* Router::route: every outcome the call may have (the handlers' results and
\* the order of allowed_methods are not the router's choice).
Router_route(trie, nf, mna, exv, request) ==
    LET m == Router_match_route(trie, request.path)
    IN  IF m.panic THEN {[panic |-> TRUE, diag |-> m.diag, calls |-> <<>>, returned |-> NoneV]}
        ELSE IF ~m.result.some
        THEN {Outcome(m, Call("route_not_found", nf, NoneV, NoneV, exv, r)) :
                 r \in IF nf = "default" THEN {DefaultRouteNotFound} ELSE HandlerResults}
        ELSE LET route == m.result.val.route
                 params == m.result.val.params
                 handler == Route_handler(route, request.method)
             IN  IF ~handler.some
                 THEN {Outcome(m, Call("method_not_allowed", mna, Some(route), Some(params), exv, r)) :
                          r \in IF mna = "default"
                                THEN {DefaultMethodNotAllowed(o) : o \in Route_allowed_methods(route)}
                                ELSE HandlerResults}
                 ELSE {Outcome(m, Call("handler", handler.val, Some(route), Some(params), exv, r)) :
                          r \in HandlerResults}

\* One iteration of match_route's loop over segments (router.rs 179-199), on
\* the loop state a call holds: the next index i and the candidates.
Match_step(trie, st) ==
    LET segment == st.segments[st.i]
    IN  IF segment = <<>> THEN [st EXCEPT !.i = @ + 1]
        ELSE LET new_candidates == NewCandidates(trie, st.candidates, segment)
             IN  IF new_candidates = <<>>
                 THEN [pc |-> "matched", path |-> st.path, method |-> st.method,
                       m |-> [panic |-> FALSE, result |-> NoneV, diag |-> FALSE,
                              candidates |-> <<>>]]
                 ELSE [st EXCEPT !.i = @ + 1, !.candidates = new_candidates]

\* match_route after its loop (router.rs 201-219).
Match_finish(trie, candidates, segments) ==
    LET diag == Len(candidates) > 1
        node == trie[Chosen(candidates)]
    IN  IF ~node.route.some
        THEN [panic |-> FALSE, result |-> NoneV, diag |-> diag, candidates |-> candidates]
        ELSE LET route == node.route.val
                 params == ExtractParams(route.path, segments, 1)
             IN  IF params.panic
                 THEN [panic |-> TRUE, result |-> NoneV, diag |-> diag,
                       candidates |-> candidates]
                 ELSE [panic |-> FALSE,
                       result |-> Some([route |-> route, params |-> params.val]),
                       diag |-> diag, candidates |-> candidates]

\* Router::route after match_route returned m (router.rs 234-247).
Route_dispatch(m, nf, mna, exv, request) ==
    IF m.panic THEN {[panic |-> TRUE, diag |-> m.diag, calls |-> <<>>, returned |-> NoneV]}
    ELSE IF ~m.result.some
    THEN {Outcome(m, Call("route_not_found", nf, NoneV, NoneV, exv, r)) :
             r \in IF nf = "default" THEN {DefaultRouteNotFound} ELSE HandlerResults}
    ELSE LET route == m.result.val.route
             params == m.result.val.params
             handler == Route_handler(route, request.method)
         IN  IF ~handler.some
             THEN {Outcome(m, Call("method_not_allowed", mna, Some(route), Some(params), exv, r)) :
                      r \in IF mna = "default"
                            THEN {DefaultMethodNotAllowed(o) : o \in Route_allowed_methods(route)}
                            ELSE HandlerResults}
             ELSE {Outcome(m, Call("handler", handler.val, Some(route), Some(params), exv, r)) :
                      r \in HandlerResults}

\* ------------------------------------------------- Segment: eq and hash runs
SegChars == {"x", "y"}
SegTexts == SeqsUpTo(SegChars, MaxTextLen)
Segments == {Literal(t) : t \in SegTexts} \cup {Dynamic(t) : t \in SegTexts}

SegIdle == segs = <<>> /\ cmp = NoneV
PathIdle == pin = NoneV /\ pstage = "idle" /\ pout = NoneV
RouteIdle == rt = NoneV /\ rlog = <<>> /\ robs = NoneV

\* Router::new(ex), owned by the code that builds it.
Router_new ==
    /\ ex = "ex"
    /\ root = EmptyTrie
    /\ route_not_found = "default"
    /\ method_not_allowed = "default"
    /\ phase = "Building"
    /\ regs = <<>>
    /\ req = NoneV
    /\ obs = NoneV
    /\ tasks = [t \in 1..NTasks |-> [pc |-> "idle"]]

InitSeg ==
    /\ segs \in {<<a, b, c>> : a \in Segments, b \in Segments, c \in Segments}
    /\ cmp = NoneV
    /\ PathIdle /\ RouteIdle /\ Router_new

\* Evaluate == and hash on every pair / element of the triple.
Compare ==
    /\ cmp = NoneV
    /\ cmp' = Some([eq |-> [i \in 1..3 |-> [j \in 1..3 |-> Segment_eq(segs[i], segs[j])]],
                    hash |-> [i \in 1..3 |-> Segment_hash(segs[i])]])
    /\ UNCHANGED <<segs, pin, pstage, pout, routeVars, routerVars>>

NextSeg == Compare

SpecSeg == InitSeg /\ [][NextSeg]_vars

\* ---------------------------------------------------- Path: parse and format
PathChars == {"/", "[", "]", "a", "é"}
Strings == SeqsUpTo(PathChars, MaxStrLen)
PathSegments ==
    LET texts == SeqsUpTo(PathChars, MaxTextLen)
    IN  {Literal(t) : t \in texts} \cup {Dynamic(t) : t \in texts}
Paths == SeqsUpTo(PathSegments, MaxPathSegs)

InitPath ==
    /\ pin \in {[kind |-> "str", s |-> s] : s \in Strings}
              \cup {[kind |-> "path", p |-> p] : p \in Paths}
    /\ pstage = "start"
    /\ pout = NoneV
    /\ SegIdle /\ RouteIdle /\ Router_new

\* Path::from_str(input)
FromStr ==
    /\ pstage = "start" /\ pin.kind = "str"
    /\ pout' = Path_from_str(pin.s)
    /\ pstage' = "parsed"
    /\ UNCHANGED <<pin, segs, cmp, routeVars, routerVars>>

\* format!("{}", path)
Display ==
    /\ pstage = "start" /\ pin.kind = "path"
    /\ pout' = Ok(Path_fmt(pin.p))
    /\ pstage' = "formatted"
    /\ UNCHANGED <<pin, segs, cmp, routeVars, routerVars>>

\* Path::from_str on the formatted text
Reparse ==
    /\ pstage = "formatted"
    /\ pout' = Path_from_str(pout.val)
    /\ pstage' = "reparsed"
    /\ UNCHANGED <<pin, segs, cmp, routeVars, routerVars>>

NextPath == FromStr \/ Display \/ Reparse

SpecPath == InitPath /\ [][NextPath]_vars

\* ------------------------------------------------------ Route: building one
Methods == {"GET", "DELETE", "PATCH"}
Handlers == {"h1", "h2"}
BuilderPaths == {<<>>, <<Literal(<<"r">>)>>}

InitRoute ==
    /\ rt \in {Route_new(p) : p \in BuilderPaths}
    /\ rlog = <<>>
    /\ robs = NoneV
    /\ SegIdle /\ PathIdle /\ Router_new

\* route.get(h), route.delete(h), route.patch(h), ...
RouteMethod ==
    /\ Len(rlog) < MaxMethodCalls
    /\ \E m \in Methods, h \in Handlers :
          /\ rt' = Route_register(rt, m, h)
          /\ rlog' = Append(rlog, <<m, h>>)
    /\ robs' = NoneV
    /\ UNCHANGED <<segs, cmp, pin, pstage, pout, routerVars>>

\* route.allowed_methods()
QueryAllowedMethods ==
    /\ \E o \in Route_allowed_methods(rt) :
          robs' = Some([op |-> "allowed_methods", method |-> "", val |-> o])
    /\ UNCHANGED <<rt, rlog, segs, cmp, pin, pstage, pout, routerVars>>

\* route.handler(&m)
QueryHandler ==
    /\ \E m \in Methods :
          robs' = Some([op |-> "handler", method |-> m, val |-> Route_handler(rt, m)])
    /\ UNCHANGED <<rt, rlog, segs, cmp, pin, pstage, pout, routerVars>>

\* The default method_not_allowed fallback, called with this route for a
\* method it has no handler for.
QueryMethodNotAllowed ==
    /\ \E m \in Methods \ DOMAIN rt.handlers, o \in Route_allowed_methods(rt) :
          robs' = Some([op |-> "method_not_allowed", method |-> m,
                        val |-> DefaultMethodNotAllowed(o)])
    /\ UNCHANGED <<rt, rlog, segs, cmp, pin, pstage, pout, routerVars>>

NextRoute == RouteMethod \/ QueryAllowedMethods \/ QueryHandler \/ QueryMethodNotAllowed

SpecRoute == InitRoute /\ [][NextRoute]_vars

Register_AnyPhase(routes) ==
    /\ Len(regs) < MaxRegs
    /\ \E r \in routes :
          /\ root' = Node_append(root, r)
          /\ regs' = Append(regs, r)
    /\ UNCHANGED <<route_not_found, method_not_allowed, ex, phase, req, obs>>
    /\ UNCHANGED <<segs, cmp, pin, pstage, pout, routeVars, tasks>>

\* ------------------------------------------------------- Router: operations
\* router.register(route): needs the Router by value.
Register(routes) ==
    /\ phase = "Building"
    /\ Len(regs) < MaxRegs
    /\ \E r \in routes :
          /\ root' = Node_append(root, r)
          /\ regs' = Append(regs, r)
    /\ UNCHANGED <<route_not_found, method_not_allowed, ex, phase, req, obs>>
    /\ UNCHANGED <<segs, cmp, pin, pstage, pout, routeVars, tasks>>

\* router.register_many(routes): needs &mut Router.
RegisterMany(routes) ==
    /\ phase = "Building"
    /\ \E rs \in SeqsUpTo(routes, MaxRegs - Len(regs)) :
          /\ root' = AppendAll(root, rs)
          /\ regs' = regs \o rs
    /\ UNCHANGED <<route_not_found, method_not_allowed, ex, phase, req, obs>>
    /\ UNCHANGED <<segs, cmp, pin, pstage, pout, routeVars, tasks>>

\* router.route_not_found(handler): needs &mut Router.
SetRouteNotFound ==
    /\ phase = "Building"
    /\ route_not_found' = "custom"
    /\ UNCHANGED <<root, method_not_allowed, ex, phase, regs, req, obs>>
    /\ UNCHANGED <<segs, cmp, pin, pstage, pout, routeVars, tasks>>

\* router.method_not_allowed(handler): needs &mut Router.
SetMethodNotAllowed ==
    /\ phase = "Building"
    /\ method_not_allowed' = "custom"
    /\ UNCHANGED <<root, route_not_found, ex, phase, regs, req, obs>>
    /\ UNCHANGED <<segs, cmp, pin, pstage, pout, routeVars, tasks>>

\* let router = Arc::new(router): from here on only &Router is reachable.
Serve ==
    /\ phase = "Building"
    /\ phase' = "Serving"
    /\ UNCHANGED <<root, route_not_found, method_not_allowed, ex, regs, req, obs>>
    /\ UNCHANGED <<segs, cmp, pin, pstage, pout, routeVars, tasks>>

\* The transport hands a request to Router::route(Arc::clone(&router), req).
Request(paths, methods) ==
    /\ phase = "Serving"
    /\ req = NoneV
    /\ \E p \in paths, m \in methods : req' = Some([path |-> p, method |-> m])
    /\ UNCHANGED <<root, route_not_found, method_not_allowed, ex, phase, regs, obs>>
    /\ UNCHANGED <<segs, cmp, pin, pstage, pout, routeVars, tasks>>

\* Router::route runs on the request.
Route ==
    /\ req.some
    /\ obs = NoneV
    /\ \E o \in Router_route(root, route_not_found, method_not_allowed, ex, req.val) :
          obs' = Some(o)
    /\ UNCHANGED <<root, route_not_found, method_not_allowed, ex, phase, regs, req>>
    /\ UNCHANGED <<segs, cmp, pin, pstage, pout, routeVars, tasks>>

\* The response goes back to the transport; the next request may come.
Respond ==
    /\ obs.some
    /\ req' = NoneV
    /\ obs' = NoneV
    /\ UNCHANGED <<root, route_not_found, method_not_allowed, ex, phase, regs>>
    /\ UNCHANGED <<segs, cmp, pin, pstage, pout, routeVars, tasks>>

InitRouter == SegIdle /\ PathIdle /\ RouteIdle /\ Router_new

\* ----------------------------------------------------- Router: matching runs
RouterSegments ==
    {Literal(<<"x">>), Literal(<<"y">>), Dynamic(<<"a">>), Dynamic(<<"b">>)}
MatchRoutes ==
    {Route_register(Route_new(p), "GET", "h1") : p \in SeqsUpTo(RouterSegments, MaxSegs)}
ReqChars == {"/", "x", "y"}
\* Origin-form request paths: a slash, then anything.
ReqPaths == {<<"/">> \o s : s \in SeqsUpTo(ReqChars, MaxReqLen)}

Next ==
    \/ Register(MatchRoutes)
    \/ RegisterMany(MatchRoutes)
    \/ Serve
    \/ Request(ReqPaths, {"GET"})
    \/ Route
    \/ Respond

Spec == InitRouter /\ [][Next]_vars

\* ----------------------------------------------------- Router: dispatch runs
DispatchMethods == {"GET", "DELETE"}
DispatchSegments == {Literal(<<"x">>), Dynamic(<<"a">>), Dynamic(<<"b">>)}
DispatchTables == UNION {[S -> Handlers] : S \in SUBSET DispatchMethods}
DispatchRoutes ==
    {[path |-> p, handlers |-> t] :
        p \in SeqsUpTo(DispatchSegments, MaxDispatchSegs), t \in DispatchTables}
DispatchPaths == {<<"/">> \o s : s \in SeqsUpTo({"/", "x"}, MaxDispatchSegs + 1)}

NextDispatch ==
    \/ Register(DispatchRoutes)
    \/ RegisterMany(DispatchRoutes)
    \/ SetRouteNotFound
    \/ SetMethodNotAllowed
    \/ Serve
    \/ Request(DispatchPaths, DispatchMethods)
    \/ Route
    \/ Respond

SpecDispatch == InitRouter /\ [][NextDispatch]_vars

\* ---------------------------------------------- Router: concurrent serving
\* The example's accept loop: every connection task holds a clone of the Arc
\* and calls Router::route on it; the calls interleave step by step.
ServePatterns ==
    {<<>>, <<Literal(<<"x">>)>>, <<Dynamic(<<"a">>)>>,
     <<Dynamic(<<"a">>), Literal(<<"x">>)>>}
ServeRoutes == {Route_register(Route_new(p), "GET", "h1") : p \in ServePatterns}
ServePaths ==
    {<<"/">>, <<"/", "x">>, <<"/", "y", "/", "x">>, <<"/", "x", "/", "/", "x">>}

ServeFrame ==
    /\ UNCHANGED <<root, route_not_found, method_not_allowed, ex, phase, regs, req, obs>>
    /\ UNCHANGED <<segs, cmp, pin, pstage, pout, routeVars>>

\* A task enters route(): path is read, split and the candidates start at root
\* (router.rs 232, 171-177).
TaskRequest(t) ==
    /\ phase = "Serving"
    /\ tasks[t].pc = "idle"
    /\ \E p \in ServePaths, m \in DispatchMethods :
          tasks' = [tasks EXCEPT ![t] =
                       [pc |-> "loop", path |-> p, method |-> m,
                        segments |-> Split(TrimStart(p)), i |-> 1,
                        candidates |-> <<(<<>>)>>]]
    /\ ServeFrame

\* One iteration of the loop over segments, reading the shared trie.
TaskLoop(t) ==
    /\ tasks[t].pc = "loop"
    /\ tasks[t].i <= Len(tasks[t].segments)
    /\ tasks' = [tasks EXCEPT ![t] = Match_step(root, tasks[t])]
    /\ ServeFrame

\* The loop is over: pick the first candidate, extract the params.
TaskFinish(t) ==
    /\ tasks[t].pc = "loop"
    /\ tasks[t].i > Len(tasks[t].segments)
    /\ tasks' = [tasks EXCEPT ![t] =
                    [pc |-> "matched", path |-> tasks[t].path, method |-> tasks[t].method,
                     m |-> Match_finish(root, tasks[t].candidates, tasks[t].segments)]]
    /\ ServeFrame

\* The fallback or the handler is called and its result returned.
TaskDispatch(t) ==
    /\ tasks[t].pc = "matched"
    /\ \E o \in Route_dispatch(tasks[t].m, route_not_found, method_not_allowed, ex,
                               [path |-> tasks[t].path, method |-> tasks[t].method]) :
          tasks' = [tasks EXCEPT ![t] =
                       [pc |-> "done", path |-> tasks[t].path,
                        method |-> tasks[t].method, outcome |-> o]]
    /\ ServeFrame

\* The response is written; the task takes the connection's next request.
TaskRespond(t) ==
    /\ tasks[t].pc = "done"
    /\ tasks' = [tasks EXCEPT ![t] = [pc |-> "idle"]]
    /\ ServeFrame

NextServe ==
    \/ Register(ServeRoutes)
    \/ SetRouteNotFound
    \/ SetMethodNotAllowed
    \/ Serve
    \/ \E t \in 1..NTasks : TaskRequest(t)
    \/ \E t \in 1..NTasks : TaskLoop(t)
    \/ \E t \in 1..NTasks : TaskFinish(t)
    \/ \E t \in 1..NTasks : TaskDispatch(t)
    \/ \E t \in 1..NTasks : TaskRespond(t)

SpecServe == InitRouter /\ [][NextServe]_vars

\* ================================================================== claims
\* The vocabulary of the claims, stated without the router's own operators.

\* The non-empty '/'-delimited components of a request path, in order.
Components(path) == SelectSeq(Split(path), LAMBDA c : c # <<>>)

\* A pattern matches a component list: same length, literals equal in place.
PatternMatches(pattern, comps) ==
    /\ Len(pattern) = Len(comps)
    /\ \A i \in 1..Len(pattern) :
          pattern[i].kind = "Literal" => pattern[i].text = comps[i]

\* Two patterns that differ at most in the names of their dynamic segments.
SamePattern(p, q) ==
    /\ Len(p) = Len(q)
    /\ \A i \in 1..Len(p) :
          /\ p[i].kind = q[i].kind
          /\ p[i].kind = "Literal" => p[i].text = q[i].text

\* The components at the dynamic positions of a pattern, in pattern order.
ExpectedParams(pattern, comps) ==
    LET idx == SelectSeq([i \in 1..Len(pattern) |-> i],
                         LAMBDA i : pattern[i].kind = "Dynamic")
    IN  [k \in 1..Len(idx) |-> comps[idx[k]]]

Range(f) == {f[i] : i \in DOMAIN f}

Maximum(S) == CHOOSE m \in S : \A k \in S : k <= m

\* The one call route() made, when it made exactly one.
TheCall == obs.val.calls[1]
Routed == obs.some /\ ~obs.val.panic /\ Len(obs.val.calls) = 1
Matched == Routed /\ TheCall.route.some

X == <<"x">>
Y == <<"y">>

\* C1: whenever match_route returns (route, params), params holds one entry
\* per dynamic segment of route.path, in pattern order, and the entry for the
\* dynamic segment at pattern index i is the i-th non-empty component of the
\* request path -- also with leading, trailing or repeated slashes.
C1_ParamsAreTheComponents ==
    Matched =>
        TheCall.params.val
            = ExpectedParams(TheCall.route.val.path, Components(req.val.path))

\* C2: if some registered pattern matches the request path, match_route
\* returns a route and route() does not take the not-found fallback.
C2_MatchingPatternIsFound ==
    Routed =>
        ((\E r \in Range(regs) : PatternMatches(r.path, Components(req.val.path)))
            => TheCall.target # "route_not_found")

\* C3: route() invokes exactly one target, once, and returns its result
\* unmodified: route_not_found iff match_route finds no match;
\* method_not_allowed (with the matched route and the extracted params) iff a
\* route matched that has no handler for the method; else that route's
\* handler for the method.  The default not-found fallback answers 404, it
\* does not fail.
C3_DispatchesToExactlyOneTarget ==
    obs.some =>
        LET m == Router_match_route(root, req.val.path)
            method == req.val.method
        IN  /\ ~obs.val.panic
            /\ Len(obs.val.calls) = 1
            /\ obs.val.returned = TheCall.result
            /\ TheCall.ex = ex
            /\ (TheCall.target = "route_not_found") = (~m.result.some)
            /\ TheCall.target = "route_not_found" =>
                  /\ TheCall.fn = route_not_found
                  /\ route_not_found = "default" =>
                        obs.val.returned.ok /\ obs.val.returned.status = 404
            /\ m.result.some =>
                  LET route == m.result.val.route
                  IN  /\ TheCall.route = Some(route)
                      /\ TheCall.params = Some(m.result.val.params)
                      /\ (TheCall.target = "method_not_allowed")
                            = (method \notin DOMAIN route.handlers)
                      /\ TheCall.target = "method_not_allowed" =>
                            TheCall.fn = method_not_allowed
                      /\ method \in DOMAIN route.handlers =>
                            /\ TheCall.target = "handler"
                            /\ TheCall.fn = route.handlers[method]

C3_Witness ==
    /\ Matched
    /\ TheCall.target = "method_not_allowed"
    /\ TheCall.fn = "custom"
    /\ TheCall.params = Some(<<X>>)
    /\ ~obs.val.returned.ok

\* C4: a route returned by match_route was registered and is the terminal
\* route of a node, its pattern has as many segments as the request has
\* non-empty components, and each literal segment equals the component at
\* its position; every node's terminal route has a path segment-wise equal
\* to the node's key path.
C4_MatchedRouteMatchesThePath ==
    /\ \A n \in DOMAIN root :
          root[n].route.some => SamePattern(root[n].route.val.path, n)
    /\ Matched =>
          LET route == TheCall.route.val
          IN  /\ route \in Range(regs)
              /\ \E n \in DOMAIN root : root[n].route = Some(route)
              /\ PatternMatches(route.path, Components(req.val.path))

C4_Witness ==
    /\ Matched
    /\ req.val.path = <<"/", "x", "/", "y">>
    /\ TheCall.route.val.path = <<Literal(X), Dynamic(<<"b">>)>>

\* C5: registering a route whose path equals an already registered one (also
\* when only the dynamic names differ) creates no node and replaces the
\* earlier route as a whole: the node holds the last such route, and a method
\* only an earlier route handled reaches method_not_allowed.
C5_ReRegistrationOverwrites ==
    LET last(p) == regs[Maximum({i \in 1..Len(regs) : SamePattern(regs[i].path, p)})]
        prefixes == UNION {{SubSeq(regs[i].path, 1, k) : k \in 0..Len(regs[i].path)} :
                              i \in 1..Len(regs)}
        shape(p) == [i \in 1..Len(p) |->
                        IF p[i].kind = "Dynamic" THEN Dynamic(<<>>) ELSE p[i]]
    IN  /\ Cardinality(DOMAIN root) = Cardinality({shape(p) : p \in prefixes \cup {<<>>}})
        /\ \A n \in DOMAIN root :
              root[n].route =
                  IF \E i \in 1..Len(regs) : SamePattern(regs[i].path, n)
                  THEN Some(last(n)) ELSE NoneV
        /\ Matched =>
              LET now == last(TheCall.route.val.path)
                  method == req.val.method
              IN  /\ TheCall.route.val.handlers = now.handlers
                  /\ IF method \in DOMAIN now.handlers
                     THEN TheCall.target = "handler" /\ TheCall.fn = now.handlers[method]
                     ELSE TheCall.target = "method_not_allowed"

C5_Witness ==
    /\ Matched
    /\ Len(regs) = 2
    /\ regs[1] = [path |-> <<Dynamic(<<"a">>)>>, handlers |-> ("GET" :> "h1")]
    /\ regs[2] = [path |-> <<Dynamic(<<"b">>)>>, handlers |-> ("DELETE" :> "h2")]
    /\ Cardinality(DOMAIN root) = 2
    /\ req.val = [path |-> <<"/", "x">>, method |-> "GET"]
    /\ TheCall.target = "method_not_allowed"

\* C6: Path::from_str returns a Path for every input string; it never panics.
C6_ParseIsTotal == pstage = "parsed" => ~pout.panic

\* C7: for every Path whose literal segments are non-empty, hold no '/' and
\* are not bracket-wrapped, and whose dynamic segments carry any name (the
\* empty one too), parsing the formatted text gives an equal Path.
C7_WellFormed(p) ==
    \A i \in 1..Len(p) :
        p[i].kind = "Literal" =>
            /\ p[i].text # <<>>
            /\ "/" \notin Range(p[i].text)
            /\ ~(p[i].text[1] = "[" /\ p[i].text[Len(p[i].text)] = "]")

C7_RoundTrip ==
    (pstage = "reparsed" /\ C7_WellFormed(pin.p)) =>
        /\ ~pout.panic
        /\ SamePattern(pout.val, pin.p)

\* C8: the 'matched multiple routes' diagnostic is printed exactly when more
\* than one candidate node survives all components; the result is the
\* terminal route of the first candidate (literal child before dynamic child
\* at every level), or no match when that candidate has none -- a function of
\* the registered routes and the path alone.  With /x/y and /[a]/[b] both
\* registered, /x/y resolves to /x/y.
C8_Survivors ==
    LET comps == Components(req.val.path)
    IN  {n \in DOMAIN root : PatternMatches(n, comps)}

C8_First(S) ==
    CHOOSE n \in S : \A m \in S \ {n} :
        \E i \in 1..Len(n) :
            /\ \A j \in 1..(i - 1) : n[j].kind = m[j].kind
            /\ n[i].kind = "Literal" /\ m[i].kind = "Dynamic"

C8_FirstSurvivorDecides ==
    Routed =>
        LET S == C8_Survivors
        IN  /\ obs.val.diag = (Cardinality(S) > 1)
            /\ IF S # {} /\ root[C8_First(S)].route.some
               THEN /\ TheCall.target # "route_not_found"
                    /\ TheCall.route = root[C8_First(S)].route
               ELSE TheCall.target = "route_not_found"
            /\ ( /\ Components(req.val.path) = <<X, Y>>
                 /\ \E n \in S : n[1].kind = "Literal" /\ n[2].kind = "Literal"
                                  /\ root[n].route.some
                 /\ \E n \in S : n[1].kind = "Dynamic" /\ n[2].kind = "Dynamic"
                                  /\ root[n].route.some )
               => /\ TheCall.route.some
                  /\ TheCall.route.val.path = <<Literal(X), Literal(Y)>>

C8_Witness ==
    /\ Matched
    /\ obs.val.diag
    /\ req.val.path = <<"/", "x", "/", "y">>
    /\ \E i, j \in 1..Len(regs) :
          /\ regs[i].path = <<Literal(X), Literal(Y)>>
          /\ regs[j].path = <<Dynamic(<<"a">>), Dynamic(<<"b">>)>>
    /\ TheCall.route.val.path = <<Literal(X), Literal(Y)>>

\* C9: for a Route built by any sequence of method registrations, handler(m)
\* is present iff m is among allowed_methods(), allowed_methods() is exactly
\* the set of methods registered so far, without duplicates, each bound to
\* the handler registered last for it; the default method_not_allowed answer
\* is a 405 whose Allow header lists exactly those methods.
C9_Registered == {rlog[i][1] : i \in 1..Len(rlog)}

C9_LastHandler(m) == rlog[Maximum({i \in 1..Len(rlog) : rlog[i][1] = m})][2]

C9_HandlerTableIsTheRegistrations ==
    /\ rt # NoneV =>
          /\ DOMAIN rt.handlers = C9_Registered
          /\ \A m \in C9_Registered : rt.handlers[m] = C9_LastHandler(m)
    /\ robs.some =>
          LET q == robs.val
              n == Cardinality(C9_Registered)
          IN  /\ q.op = "handler" =>
                    q.val = IF q.method \in C9_Registered
                            THEN Some(C9_LastHandler(q.method)) ELSE NoneV
              /\ q.op = "allowed_methods" =>
                    /\ Len(q.val) = n
                    /\ Range(q.val) = C9_Registered
              /\ q.op = "method_not_allowed" =>
                    /\ q.val.ok /\ q.val.status = 405
                    /\ q.val.allow.some
                    /\ LET h == q.val.allow.val
                       IN  /\ Len(h) = (IF n = 0 THEN 0 ELSE 2 * n - 1)
                           /\ {h[i] : i \in {k \in 1..Len(h) : k % 2 = 1}} = C9_Registered
                           /\ \A i \in {k \in 1..Len(h) : k % 2 = 0} : h[i] = ", "

C9_Witness ==
    /\ rlog = << <<"GET", "h1">>, <<"GET", "h2">> >>
    /\ rt.handlers = ("GET" :> "h2")
    /\ robs.some
    /\ robs.val.op = "method_not_allowed"
    /\ robs.val.method = "DELETE"
    /\ robs.val.val.status = 405
    /\ robs.val.val.allow = Some(<<"GET">>)

\* C10: Segment equality is an equivalence relation in which all dynamic
\* segments are equal, two literals are equal iff their texts are, and a
\* dynamic segment never equals a literal; equal segments hash identically
\* (all dynamic segments share one hash, a literal's depends on its text only).
C10_EqualityAndHashLaws ==
    cmp.some =>
        LET e == cmp.val.eq
            h == cmp.val.hash
            I == 1..3
        IN  /\ \A i \in I : e[i][i]
            /\ \A i, j \in I : e[i][j] = e[j][i]
            /\ \A i, j, k \in I : (e[i][j] /\ e[j][k]) => e[i][k]
            /\ \A i, j \in I :
                  /\ (segs[i].kind = "Dynamic" /\ segs[j].kind = "Dynamic") => e[i][j]
                  /\ (segs[i].kind = "Literal" /\ segs[j].kind = "Literal") =>
                        (e[i][j] = (segs[i].text = segs[j].text))
                  /\ segs[i].kind # segs[j].kind => ~e[i][j]
                  /\ e[i][j] => h[i] = h[j]

C10_Witness ==
    /\ cmp.some
    /\ segs = <<Dynamic(X), Dynamic(Y), Literal(X)>>
    /\ cmp.val.eq[1][2]
    /\ ~cmp.val.eq[1][3]
    /\ cmp.val.hash[1] = cmp.val.hash[2]

\* C11: after any sequence of appends from the default root, the child keys
\* of every node are pairwise unequal under Segment equality: at most one
\* dynamic child and at most one child per literal text, so patterns that
\* share a prefix (up to dynamic names) share the nodes of that prefix.
C11_Shape(p) ==
    [i \in 1..Len(p) |-> IF p[i].kind = "Dynamic" THEN Dynamic(<<>>) ELSE p[i]]

C11_ChildKeysAreDistinct ==
    /\ <<>> \in DOMAIN root
    /\ \A n, m \in DOMAIN root :
          (n # m /\ Len(n) = Len(m) /\ Len(n) > 0
                 /\ SubSeq(n, 1, Len(n) - 1) = SubSeq(m, 1, Len(m) - 1))
          => LET a == n[Len(n)]
                 b == m[Len(m)]
             IN  /\ ~(a.kind = "Dynamic" /\ b.kind = "Dynamic")
                 /\ ~(a.kind = "Literal" /\ b.kind = "Literal" /\ a.text = b.text)
    /\ \A i, j \in 1..Len(regs) :
          \A k \in 0..Len(regs[i].path) :
             (k <= Len(regs[j].path)
              /\ C11_Shape(SubSeq(regs[i].path, 1, k)) = C11_Shape(SubSeq(regs[j].path, 1, k)))
             => Cardinality({n \in DOMAIN root :
                               C11_Shape(n) = C11_Shape(SubSeq(regs[i].path, 1, k))}) = 1

C11_Witness ==
    /\ Len(regs) = 2
    /\ regs[1].path = <<Dynamic(<<"a">>)>>
    /\ regs[2].path = <<Dynamic(<<"b">>), Literal(X)>>
    /\ DOMAIN root = {<<>>, <<Dynamic(<<"a">>)>>, <<Dynamic(<<"a">>), Literal(X)>>}

\* C12: parse(s) yields one segment per non-empty '/'-delimited component of
\* s, in order; a component gives a dynamic segment iff it starts with '['
\* and ends with ']', carrying the text strictly between the brackets, and
\* any other component gives a literal segment with the component verbatim.
C12_SegmentOf(c) ==
    IF c[1] = "[" /\ c[Len(c)] = "]"
    THEN Dynamic(SubSeq(c, 2, Len(c) - 1))
    ELSE Literal(c)

C12_ParseYieldsTheComponents ==
    pstage = "parsed" =>
        /\ ~pout.panic
        /\ LET comps == Components(pin.s)
           IN  pout.val = [i \in 1..Len(comps) |-> C12_SegmentOf(comps[i])]

\* C13: once the router is shared behind the Arc (Serving), no step of any
\* route call changes the trie, the fallback handlers or the shared context,
\* there is no way back to Building, and mutation happens in Building only;
\* under every interleaving each call's match and dispatch are those of the
\* call run alone on the router.
C13_Alone(t) ==
    LET request == [path |-> tasks[t].path, method |-> tasks[t].method]
    IN  /\ tasks[t].pc = "matched" =>
              tasks[t].m = Router_match_route(root, tasks[t].path)
        /\ tasks[t].pc = "done" =>
              tasks[t].outcome \in
                  Router_route(root, route_not_found, method_not_allowed, ex, request)

C13_ServingIsReadOnly ==
    /\ [](\A t \in 1..NTasks :
             /\ tasks[t].pc # "idle" => phase = "Serving"
             /\ C13_Alone(t))
    /\ [][ /\ phase = "Serving" =>
                 /\ phase' = "Serving"
                 /\ root' = root
                 /\ route_not_found' = route_not_found
                 /\ method_not_allowed' = method_not_allowed
                 /\ ex' = ex
           /\ (root' # root \/ route_not_found' # route_not_found
                  \/ method_not_allowed' # method_not_allowed) => phase = "Building"
         ]_vars

C13_Witness ==
    /\ phase = "Serving"
    /\ Len(regs) = 2
    /\ tasks[1].pc = "done" /\ tasks[1].path = <<"/", "x">>
    /\ tasks[1].outcome.diag
    /\ tasks[1].outcome.calls[1].target = "handler"
    /\ tasks[2].pc = "loop" /\ tasks[2].i = 2
    /\ tasks[2].path = <<"/", "y", "/", "x">>

\* C14: append(route) only grows the trie: no step removes a node; one append
\* creates at most one node per segment of route.path, all of them on the walk
\* of route.path; afterwards the node reached by route.path holds the route,
\* and every other node, old or new, holds what it held (nothing, if new), so
\* every stored route with another path is still stored.
C14_Added == {regs'[k].path : k \in (Len(regs) + 1)..Len(regs')}

C14_AppendOnlyGrows ==
    [][ /\ DOMAIN root \subseteq DOMAIN root'
        /\ \A n \in DOMAIN root :
              (\A q \in C14_Added : ~SamePattern(n, q)) => root'[n] = root[n]
        /\ Len(regs') = Len(regs) + 1 =>
              LET route == regs'[Len(regs')]
                  created == DOMAIN root' \ DOMAIN root
                  changed == {n \in DOMAIN root : root'[n] # root[n]}
                  target == {n \in DOMAIN root' : SamePattern(n, route.path)}
              IN  /\ Cardinality(created) <= Len(route.path)
                  /\ \A n \in created :
                        /\ Len(n) <= Len(route.path)
                        /\ SamePattern(n, SubSeq(route.path, 1, Len(n)))
                        /\ n \notin target => root'[n] = Node_default
                  /\ Cardinality(target) = 1
                  /\ \A n \in target : root'[n].route = Some(route)
                  /\ changed \subseteq target
                  /\ \A i \in 1..Len(regs) :
                        ~Path_eq(regs[i].path, route.path) =>
                            \A n \in DOMAIN root :
                                root[n].route = Some(regs[i]) =>
                                    root'[n].route = Some(regs[i])
      ]_vars

C14_Witness ==
    /\ Len(regs) = 2
    /\ regs[1].path = <<Literal(X), Dynamic(<<"a">>)>>
    /\ regs[2].path = <<Literal(X)>>
    /\ DOMAIN root = {<<>>, <<Literal(X)>>, <<Literal(X), Dynamic(<<"a">>)>>}
    /\ root[<<>>].route = NoneV
    /\ root[<<Literal(X)>>].route = Some(regs[2])
    /\ root[<<Literal(X), Dynamic(<<"a">>)>>].route = Some(regs[1])

\* C15: when the registered paths are pairwise unequal, the route and params
\* match_route returns are the same for every order of registration; the
\* chosen candidate is, against every other survivor, literal at the first
\* position where their key paths differ.  With /x/[b] and /[a]/y registered
\* in either order, /x/y resolves to /x/[b] with params ["y"].
C15_Orders(s) ==
    {[i \in 1..Len(s) |-> s[f[i]]] :
        f \in {g \in [1..Len(s) -> 1..Len(s)] : \A i, j \in 1..Len(s) : g[i] = g[j] => i = j}}

C15_PairwiseUnequal ==
    \A i, j \in 1..Len(regs) : i # j => ~Path_eq(regs[i].path, regs[j].path)

C15_LiteralBefore(n, m) ==
    \E i \in 1..Len(n) :
        /\ \A j \in 1..(i - 1) : n[j] = m[j]
        /\ n[i].kind = "Literal" /\ m[i].kind = "Dynamic"

C15_OrderDoesNotMatter ==
    (Routed /\ C15_PairwiseUnequal) =>
        LET here == Router_match_route(root, req.val.path)
        IN  /\ TheCall.route.some = here.result.some
            /\ here.result.some =>
                  /\ TheCall.route = Some(here.result.val.route)
                  /\ TheCall.params = Some(here.result.val.params)
            /\ \A order \in C15_Orders(regs) :
                  LET there == Router_match_route(AppendAll(EmptyTrie, order), req.val.path)
                  IN  /\ there.result = here.result
                      /\ there.diag = here.diag
            /\ \A k \in 2..Len(here.candidates) :
                  C15_LiteralBefore(here.candidates[1], here.candidates[k])
            /\ ( /\ req.val.path = <<"/", "x", "/", "y">>
                 /\ {regs[i].path : i \in 1..Len(regs)}
                        = {<<Literal(X), Dynamic(<<"b">>)>>, <<Dynamic(<<"a">>), Literal(Y)>>} )
               => /\ TheCall.route.some
                  /\ TheCall.route.val.path = <<Literal(X), Dynamic(<<"b">>)>>
                  /\ TheCall.params = Some(<<Y>>)

C15_Witness ==
    /\ Matched
    /\ obs.val.diag
    /\ req.val.path = <<"/", "x", "/", "y">>
    /\ Len(regs) = 2
    /\ regs[1].path = <<Dynamic(<<"a">>), Literal(Y)>>
    /\ regs[2].path = <<Literal(X), Dynamic(<<"b">>)>>
    /\ TheCall.route.val.path = <<Literal(X), Dynamic(<<"b">>)>>
    /\ TheCall.params = Some(<<Y>>)

\* C16: no call of route() panics in match_route's parameter extraction:
\* whenever a route is matched, its path is no longer than the list of
\* '/'-separated components (empty ones included) of the request path after
\* its leading slashes, so every index the extraction uses is within the list.
C16_Segments == Split(TrimStart(req.val.path))

C16_ExtractionStaysInBounds ==
    obs.some =>
        /\ ~obs.val.panic
        /\ ~Router_match_route(root, req.val.path).panic
        /\ Matched =>
              LET path == TheCall.route.val.path
              IN  /\ Len(path) <= Len(C16_Segments)
                  /\ \A idx \in 1..Len(path) :
                        path[idx].kind = "Dynamic" => idx \in DOMAIN C16_Segments
                  /\ Len(TheCall.params.val)
                        = Cardinality({idx \in 1..Len(path) : path[idx].kind = "Dynamic"})

C16_Witness ==
    /\ Matched
    /\ req.val.path = <<"/", "y", "/", "x">>
    /\ TheCall.route.val.path = <<Dynamic(<<"a">>), Dynamic(<<"b">>)>>
    /\ Len(TheCall.route.val.path) = Len(C16_Segments)
    /\ TheCall.params = Some(<<Y, X>>)

====
